---------------------------- MODULE Spec2Model ----------------------------
(***************************************************************************)
(* A model of 6mwt_app.py: process_file (header scan, boundary scan,       *)
(* interval averages, aggregates) and main (the batch loop with its        *)
(* per-file try/except, and the kinematics and ratio columns of the        *)
(* exported row).                                                          *)
(*                                                                         *)
(* A cell text is a sequence of one-character strings; the empty sequence  *)
(* stands for a cell whose Data element is missing or empty (the code      *)
(* tests "data is not None and data.text" everywhere).  A row is a         *)
(* sequence of cell texts, a table a sequence of rows.  Row and column     *)
(* indices are 0-based as in the code.                                     *)
(*                                                                         *)
(* Numbers are exact rationals <<n, d>> in lowest terms with d > 0; the    *)
(* rounding of Python floats is not modelled.  None is the empty tuple.    *)
(***************************************************************************)
EXTENDS Integers, Sequences, FiniteSets, TLC

None == <<>>

\* ------------------------------------------------------------------ text

LowerChars == <<"a","b","c","d","e","f","g","h","i","j","k","l","m",
                "n","o","p","q","r","s","t","u","v","w","x","y","z">>

UpperChars == <<"A","B","C","D","E","F","G","H","I","J","K","L","M",
                "N","O","P","Q","R","S","T","U","V","W","X","Y","Z">>

DigitChars == <<"0","1","2","3","4","5","6","7","8","9">>

IsSpace(c) == c = " "

DigitSet == {DigitChars[i] : i \in 1..Len(DigitChars)}

DigitOf == [c \in DigitSet |-> (CHOOSE i \in 1..Len(DigitChars) : DigitChars[i] = c) - 1]

IsDigit(c) == c \in DigitSet

DigitVal(c) == DigitOf[c]

LowerSet == {LowerChars[i] : i \in 1..Len(LowerChars)}

UpperOf == [c \in LowerSet |-> UpperChars[CHOOSE i \in 1..Len(LowerChars) : LowerChars[i] = c]]

\* str.upper() on one character
UpperChar(c) == IF c \in LowerSet THEN UpperOf[c] ELSE c

\* str.upper()
Upper(s) == [i \in 1..Len(s) |-> UpperChar(s[i])]

\* str.strip(): the text between the first and the last non-space character
Strip(s) ==
  LET keep == {i \in 1..Len(s) : ~IsSpace(s[i])}
  IN IF keep = {} THEN <<>>
     ELSE LET lo == CHOOSE i \in keep : \A j \in keep : i <= j
              hi == CHOOSE i \in keep : \A j \in keep : j <= i
          IN SubSeq(s, lo, hi)

\* str.replace(',', '.')
ReplaceComma(s) == [i \in 1..Len(s) |-> IF s[i] = "," THEN "." ELSE s[i]]

\* ------------------------------------------------------------- rationals

Abs(x) == IF x < 0 THEN -x ELSE x

RECURSIVE Gcd(_, _)
Gcd(a, b) == IF b = 0 THEN a ELSE Gcd(b, a % b)

RatNorm(n, d) ==
  LET g == Gcd(Abs(n), Abs(d))
      s == IF d < 0 THEN -1 ELSE 1
  IN <<(s * n) \div g, (s * d) \div g>>

RatInt(n) == <<n, 1>>

RatAdd(a, b) == RatNorm(a[1] * b[2] + b[1] * a[2], a[2] * b[2])

RatSub(a, b) == RatNorm(a[1] * b[2] - b[1] * a[2], a[2] * b[2])

RatMul(a, b) == RatNorm(a[1] * b[1], a[2] * b[2])

\* defined for b # 0 only
RatDiv(a, b) == RatNorm(a[1] * b[2], a[2] * b[1])

RatIsZero(a) == a[1] = 0

RECURSIVE Pow10(_)
Pow10(k) == IF k = 0 THEN 1 ELSE 10 * Pow10(k - 1)

RECURSIVE DigitsVal(_)
DigitsVal(s) ==
  IF s = <<>> THEN 0
  ELSE 10 * DigitsVal(SubSeq(s, 1, Len(s) - 1)) + DigitVal(s[Len(s)])

\* float(text): surrounding blanks dropped, an optional sign, digits with at
\* most one decimal point and at least one digit.  None stands for the
\* ValueError.  Exponents, "inf", "nan" and digit-group underscores, which
\* float() also accepts, are outside the texts the model draws.
ParseFloat(s) ==
  LET t    == Strip(s)
      sgn  == IF t # <<>> /\ t[1] = "-" THEN -1 ELSE 1
      body == IF t # <<>> /\ t[1] \in {"-", "+"} THEN Tail(t) ELSE t
      dots == {i \in 1..Len(body) : body[i] = "."}
      p    == IF dots = {} THEN Len(body) + 1 ELSE CHOOSE i \in dots : TRUE
      ip   == SubSeq(body, 1, p - 1)
      fp   == SubSeq(body, p + 1, Len(body))
      ok   == /\ Cardinality(dots) <= 1
              /\ Len(ip) + Len(fp) >= 1
              /\ \A i \in 1..Len(ip) : IsDigit(ip[i])
              /\ \A i \in 1..Len(fp) : IsDigit(fp[i])
  IN IF ok
     THEN RatNorm(sgn * (DigitsVal(ip) * Pow10(Len(fp)) + DigitsVal(fp)), Pow10(Len(fp)))
     ELSE None

\* ------------------------------------------------------- program constants

T_MARKER == <<"M","A","R","K","E","R">>

T_START == <<"S","T","A","R","T">>

\* num_metrics
num_metrics == 17

var_names == <<"V'O2", "V'O2/kg", "V'E", "RER", "FC", "CHO", "FAT",
               "EE", "EECHO", "EEFAT", "METS", "V'CO2", "V'E/V'CO2", "BF",
               "EE/BSA", "EE/kg", "EE/kg/magra">>

\* the aggregate key of each column group of the sheet, in sheet order
groups == <<"half1", "half2", "total", "third1", "third2", "third3">>

\* the column order inside one group
order == <<"V'O2", "V'O2/kg", "V'E", "RER", "FC", "CHO", "FAT",
           "EE", "EECHO", "EEFAT", "METS", "V'CO2", "V'E/V'CO2", "V'E/V'O2",
           "BF", "EE/BSA", "EE/kg", "EE/kg/magra">>

MsgNoMarker == "Marker column not found."

MsgNotEnough == "Not enough boundaries found (expected START plus six numeric markers)."

\* marker_index = None
NoIndex == -1

\* an exception leaving an expression
ZeroDivisionError == <<"ZeroDivisionError">>

TypeError == <<"TypeError">>

\* ----------------------------------------------------------- process_file

\* mutant: the header compared as written, neither trimmed nor upper-cased
IsMarkerHeader_Exact(text) == text = T_MARKER

\* data.text.strip().upper() == "MARKER"
IsMarkerHeader(text) == Upper(Strip(text)) = T_MARKER

\* the inner loop of the header scan: the first matching cell of one row
RECURSIVE ScanCells(_, _)
ScanCells(cells, i) ==
  IF i >= Len(cells) THEN NoIndex
  ELSE IF IsMarkerHeader(cells[i + 1]) THEN i
  ELSE ScanCells(cells, i + 1)

\* the outer loop of the header scan: rows in order, stop at the first match
RECURSIVE ScanRows(_, _)
ScanRows(rows, r) ==
  IF r >= Len(rows) THEN NoIndex
  ELSE LET m == ScanCells(rows[r + 1], 0)
       IN IF m # NoIndex THEN m ELSE ScanRows(rows, r + 1)

FindMarkerIndex(rows) == ScanRows(rows, 0)

\* mutant: START compared case-sensitively
IsStartText_CaseSensitive(marker_text) == marker_text = T_START

\* marker_text.upper() == "START"
IsStartText(marker_text) == Upper(marker_text) = T_START

\* float(marker_text.replace(',', '.'))
MeterOf(marker_text) == ParseFloat(ReplaceComma(marker_text))

\* the time cell two columns left of the marker, stripped, "" if unavailable
TimeOf(cells, mi) ==
  IF mi - 2 >= 0 /\ mi - 2 < Len(cells) THEN Strip(cells[mi - 1]) ELSE <<>>

\* mutant: the scan goes on to an eighth boundary
BreakNow_Eight(b) == Len(b) = 8

\* if len(boundaries) == 7: break
BreakNow(b) == Len(b) = 7

\* if len(boundaries) < 7: raise
NotEnough(b) == Len(b) < 7

\* The body of the boundary loop for row idx, up to the break test:
\* the boundaries and found_start after it, and whether "continue" was taken.
ScanBody(cells, idx, mi, b, fs) ==
  IF ~(mi < Len(cells))
  THEN [b |-> b, fs |-> fs, skip |-> TRUE]
  ELSE LET marker_text == Strip(cells[mi + 1])
           time_val    == TimeOf(cells, mi)
       IN IF ~fs
          THEN IF IsStartText(marker_text)
               THEN [b |-> Append(b, [row_index |-> idx, time |-> time_val,
                                      meter |-> RatInt(0)]),
                     fs |-> TRUE, skip |-> FALSE]
               ELSE [b |-> b, fs |-> fs, skip |-> FALSE]
          ELSE IF marker_text # <<>>
               THEN LET meter_val == MeterOf(marker_text)
                    IN IF meter_val # None
                       THEN [b |-> Append(b, [row_index |-> idx, time |-> time_val,
                                              meter |-> meter_val]),
                             fs |-> fs, skip |-> FALSE]
                       ELSE [b |-> b, fs |-> fs, skip |-> TRUE]
               ELSE [b |-> b, fs |-> fs, skip |-> FALSE]

\* mutant: range(start_idx, end_idx), the end row left out
RowRange_Exclusive(start_idx, end_idx) ==
  [i \in 1..(end_idx - start_idx) |-> start_idx + i - 1]

\* range(start_idx, end_idx + 1), as the sequence of row indices visited
RowRange(start_idx, end_idx) ==
  [i \in 1..(end_idx - start_idx + 1) |-> start_idx + i - 1]

\* the value one cell adds to a channel, None when it adds nothing
CellValue(cells, j) ==
  IF j < Len(cells) /\ cells[j + 1] # <<>>
  THEN ParseFloat(ReplaceComma(Strip(cells[j + 1])))
  ELSE None

\* sum_metrics[k] and count_metrics[k] after the rows rs, as <<sum, count>>
RECURSIVE SumCount(_, _, _)
SumCount(rows, rs, j) ==
  IF rs = <<>> THEN <<RatInt(0), 0>>
  ELSE LET acc == SumCount(rows, SubSeq(rs, 1, Len(rs) - 1), j)
           val == CellValue(rows[rs[Len(rs)] + 1], j)
       IN IF val # None THEN <<RatAdd(acc[1], val), acc[2] + 1>> ELSE acc

\* sum_metrics[k] / count_metrics[k] if count_metrics[k] > 0 else None
AvgOf(sc) == IF sc[2] > 0 THEN RatDiv(sc[1], RatInt(sc[2])) ELSE None

\* per_minute_avgs: interval 1..6 here is interval 0..5 of the code,
\* channel k in 1..num_metrics is column marker_index + k
PerMinuteAvgs(rows, mi, b) ==
  [interval \in 1..6 |->
    LET rs == RowRange(b[interval].row_index, b[interval + 1].row_index)
    IN [k \in 1..num_metrics |-> AvgOf(SumCount(rows, rs, mi + k))]]

RECURSIVE RatSum(_)
RatSum(vals) ==
  IF vals = <<>> THEN RatInt(0)
  ELSE RatAdd(RatSum(SubSeq(vals, 1, Len(vals) - 1)), vals[Len(vals)])

IsValid(v) == v # None

\* mutant: the nulls stay in the divisor
avg_list_CountAll(vals) ==
  LET valid == SelectSeq(vals, IsValid)
  IN IF valid # <<>> THEN RatDiv(RatSum(valid), RatInt(Len(vals))) ELSE None

avg_list(vals) ==
  LET valid == SelectSeq(vals, IsValid)
  IN IF valid # <<>> THEN RatDiv(RatSum(valid), RatInt(Len(valid))) ELSE None

\* var_data of the channel at position idx of var_names
VarData(pma, idx) ==
  LET vals == [m \in 1..6 |-> pma[m][idx]]
  IN [minutes |-> vals,
      third1  |-> avg_list(SubSeq(vals, 1, 2)),
      third2  |-> avg_list(SubSeq(vals, 3, 4)),
      third3  |-> avg_list(SubSeq(vals, 5, 6)),
      half1   |-> avg_list(SubSeq(vals, 1, 3)),
      half2   |-> avg_list(SubSeq(vals, 4, 6)),
      total   |-> avg_list(vals)]

VarNameSet == {var_names[i] : i \in 1..Len(var_names)}

VarIndex(var) == CHOOSE i \in 1..Len(var_names) : var_names[i] = var

Variables(pma) == [var \in VarNameSet |-> VarData(pma, VarIndex(var))]

SubjectData(b, vars) ==
  [boundaries |-> [i \in 1..Len(b) |-> b[i].time],
   meters     |-> [i \in 1..Len(b) |-> b[i].meter],
   variables  |-> vars]


\* ------------------------------------------------------------------- main

\* mutant: only None is guarded against
DwiGuard_NoneOnly(X) == X # None

\* X not in (None, 0), the guard of the three decline indices
DwiGuard(X) == X # None /\ ~RatIsZero(X)

\* ((SixMWT_m_6 - X) / X * 100) if X not in (None, 0) else None
DWI(d6, X) ==
  IF DwiGuard(X)
  THEN IF RatIsZero(X) THEN ZeroDivisionError
       ELSE RatMul(RatDiv(RatSub(d6, X), X), RatInt(100))
  ELSE None

\* mutant: metres per six minutes divided by 1000
SpeedSix_PerThousand(d) == IF d # None THEN RatDiv(d, RatInt(1000)) ELSE None

\* SixMWT_m_tot / 100 if SixMWT_m_tot is not None else None
SpeedSix(d) == IF d # None THEN RatDiv(d, RatInt(100)) ELSE None

\* (TwoMWT_m_tot * 30 / 1000) if TwoMWT_m_tot is not None else None
SpeedTwo(d) == IF d # None THEN RatDiv(RatMul(d, RatInt(30)), RatInt(1000)) ELSE None

\* the 18 distance and speed columns, in the order of "computed"
Kinematics(m) ==
  IF Len(m) = 7
  THEN IF \E i \in 1..7 : m[i] = None
       THEN <<TypeError>>
       ELSE LET m0 == m[1]  m1 == m[2]  m2 == m[3]  m3 == m[4]
                m4 == m[5]  m5 == m[6]  m6 == m[7]
                SixMWT_m_1 == RatSub(m1, m0)
                SixMWT_m_2 == RatSub(m2, m1)
                SixMWT_m_3 == RatSub(m3, m2)
                SixMWT_m_4 == RatSub(m4, m3)
                SixMWT_m_5 == RatSub(m5, m4)
                SixMWT_m_6 == RatSub(m6, m5)
                SixMWT_m_first2  == RatSub(m2, m0)
                SixMWT_m_second2 == RatSub(m4, m2)
                SixMWT_m_third2  == RatSub(m6, m4)
                SixMWT_m_first3  == RatSub(m3, m0)
                SixMWT_m_last3   == RatSub(m6, m3)
                SixMWT_m_tot     == RatSub(m6, m0)
                SixMWT_km_h_tot  == SpeedSix(SixMWT_m_tot)
                TwoMWT_m_tot     == SixMWT_m_first2
                TwoMWT_km_h_tot  == SpeedTwo(TwoMWT_m_tot)
            IN <<SixMWT_m_1, SixMWT_m_2, SixMWT_m_3, SixMWT_m_4, SixMWT_m_5, SixMWT_m_6,
                 SixMWT_m_first2, SixMWT_m_second2, SixMWT_m_third2,
                 SixMWT_m_first3, SixMWT_m_last3, SixMWT_m_tot,
                 SixMWT_km_h_tot, TwoMWT_m_tot, TwoMWT_km_h_tot,
                 DWI(SixMWT_m_6, SixMWT_m_2), DWI(SixMWT_m_6, SixMWT_m_3),
                 DWI(SixMWT_m_6, SixMWT_m_1)>>
  ELSE [i \in 1..18 |-> None]

\* try: v_e / v_o2 if (v_o2 not in (None, 0)) else None
\* except Exception: None      (v_e = None raises the TypeError caught here)
RatioOf(v_e, v_o2) ==
  IF v_o2 # None /\ ~RatIsZero(v_o2)
  THEN IF v_e = None THEN None ELSE RatDiv(v_e, v_o2)
  ELSE None

\* mutant: the ratio taken from the total bucket in every group
CompVal_TotalOnly(vars, var, agg_key) ==
  IF var = "V'E/V'O2"
  THEN RatioOf(vars["V'E"]["total"], vars["V'O2"]["total"])
  ELSE vars[var][agg_key]

\* comp_val of one column of one group
CompVal(vars, var, agg_key) ==
  IF var = "V'E/V'O2"
  THEN RatioOf(vars["V'E"][agg_key], vars["V'O2"][agg_key])
  ELSE vars[var][agg_key]

\* the physiological columns: one sequence per group, columns in "order"
PhysColumns(vars) ==
  [g \in 1..Len(groups) |-> [c \in 1..Len(order) |-> CompVal(vars, order[c], groups[g])]]

\* whether building the row raises
RowRaises(computed) ==
  \E i \in 1..Len(computed) : computed[i] \in {ZeroDivisionError, TypeError}

VARIABLES
  files,           \* uploaded_files: a sequence of [name, rows]
  k,               \* position of the for loop over uploaded_files, 1-based
  pc,              \* where main is
  marker_index,    \* process_file's locals
  idx,
  boundaries,
  found_start,
  per_minute_avgs,
  variables,
  all_subjects,
  reports,         \* the st.success / st.error messages, in order
  attempted,       \* history: the files process_file was called on, in order
  s,               \* position of the for loop over all_subjects, 1-based
  ws               \* the sheet's data rows

vars == <<files, k, pc, marker_index, idx, boundaries, found_start,
          per_minute_avgs, variables, all_subjects, reports, attempted, s, ws>>

rows == files[k].rows

NoLocals ==
  /\ marker_index' = NoIndex
  /\ idx' = 0
  /\ boundaries' = <<>>
  /\ found_start' = FALSE
  /\ per_minute_avgs' = <<>>
  /\ variables' = <<>>

\* mutant: the exception ends the loop
AfterError_Abort(i, n) == n + 1

\* The position of the for loop over n files after file i raised: the
\* except clause ends the iteration and the loop goes on with the next file.
AfterError(i, n) == i + 1

\* except Exception as e: st.error(...)
Fail(msg) ==
  /\ reports' = Append(reports, [kind |-> "error", name |-> files[k].name, msg |-> msg])
  /\ k' = AfterError(k, Len(files))
  /\ pc' = "loop"
  /\ NoLocals
  /\ UNCHANGED <<files, all_subjects, attempted, s, ws>>

InitWith(fs) ==
  /\ files = fs
  /\ k = 1
  /\ pc = "loop"
  /\ marker_index = NoIndex
  /\ idx = 0
  /\ boundaries = <<>>
  /\ found_start = FALSE
  /\ per_minute_avgs = <<>>
  /\ variables = <<>>
  /\ all_subjects = <<>>
  /\ reports = <<>>
  /\ attempted = <<>>
  /\ s = 1
  /\ ws = <<>>

\* subject_data = process_file(uploaded_file): the call
BeginFile ==
  /\ pc = "loop"
  /\ k <= Len(files)
  /\ pc' = "header"
  /\ attempted' = Append(attempted, k)
  /\ UNCHANGED <<files, k, marker_index, idx, boundaries, found_start,
                 per_minute_avgs, variables, all_subjects, reports, s, ws>>

\* the header scan finds the marker column
HeaderFound ==
  /\ pc = "header"
  /\ FindMarkerIndex(rows) # NoIndex
  /\ marker_index' = FindMarkerIndex(rows)
  /\ pc' = "scan"
  /\ UNCHANGED <<files, k, idx, boundaries, found_start, per_minute_avgs,
                 variables, all_subjects, reports, attempted, s, ws>>

\* raise ValueError("Marker column not found.")
HeaderMissing ==
  /\ pc = "header"
  /\ FindMarkerIndex(rows) = NoIndex
  /\ Fail(MsgNoMarker)

\* one iteration of the boundary loop
ScanRow ==
  /\ pc = "scan"
  /\ idx < Len(rows)
  /\ LET r == ScanBody(rows[idx + 1], idx, marker_index, boundaries, found_start)
     IN /\ boundaries' = r.b
        /\ found_start' = r.fs
        /\ idx' = idx + 1
        /\ pc' = IF (~r.skip /\ BreakNow(r.b)) \/ idx + 1 >= Len(rows)
                 THEN "check" ELSE "scan"
  /\ UNCHANGED <<files, k, marker_index, per_minute_avgs, variables,
                 all_subjects, reports, attempted, s, ws>>

\* raise ValueError("Not enough boundaries found ...")
BoundariesMissing ==
  /\ pc = "check"
  /\ NotEnough(boundaries)
  /\ Fail(MsgNotEnough)

\* the six intervals' averages
ComputeAverages ==
  /\ pc = "check"
  /\ ~NotEnough(boundaries)
  /\ per_minute_avgs' = PerMinuteAvgs(rows, marker_index, boundaries)
  /\ pc' = "vars"
  /\ UNCHANGED <<files, k, marker_index, idx, boundaries, found_start,
                 variables, all_subjects, reports, attempted, s, ws>>

\* the per-channel aggregates
BuildVariables ==
  /\ pc = "vars"
  /\ variables' = Variables(per_minute_avgs)
  /\ pc' = "ret"
  /\ UNCHANGED <<files, k, marker_index, idx, boundaries, found_start,
                 per_minute_avgs, all_subjects, reports, attempted, s, ws>>

\* return subject_data; all_subjects.append(subject_data); st.success(...)
ReturnSubject ==
  /\ pc = "ret"
  /\ all_subjects' = Append(all_subjects, SubjectData(boundaries, variables))
  /\ reports' = Append(reports, [kind |-> "success", name |-> files[k].name,
                                 msg |-> "Processed file"])
  /\ k' = k + 1
  /\ pc' = "loop"
  /\ NoLocals
  /\ UNCHANGED <<files, attempted, s, ws>>

\* the for loop over uploaded_files ends; if all_subjects: build the sheet
EndLoop ==
  /\ pc = "loop"
  /\ k > Len(files)
  /\ pc' = IF all_subjects # <<>> THEN "export" ELSE "done"
  /\ UNCHANGED <<files, k, marker_index, idx, boundaries, found_start,
                 per_minute_avgs, variables, all_subjects, reports, attempted, s, ws>>

\* one subject's row; an exception here is not caught and ends main
ExportRow ==
  /\ pc = "export"
  /\ s <= Len(all_subjects)
  /\ LET subj     == all_subjects[s]
         computed == Kinematics(subj.meters)
     IN IF RowRaises(computed)
        THEN /\ pc' = "crashed"
             /\ UNCHANGED <<s, ws>>
        ELSE /\ ws' = Append(ws, [edges    |-> subj.boundaries,
                                  computed |-> computed,
                                  phys     |-> PhysColumns(subj.variables)])
             /\ s' = s + 1
             /\ pc' = "export"
  /\ UNCHANGED <<files, k, marker_index, idx, boundaries, found_start,
                 per_minute_avgs, variables, all_subjects, reports, attempted>>

\* wb.save(...) after the last row
SaveWorkbook ==
  /\ pc = "export"
  /\ s > Len(all_subjects)
  /\ pc' = "done"
  /\ UNCHANGED <<files, k, marker_index, idx, boundaries, found_start,
                 per_minute_avgs, variables, all_subjects, reports, attempted, s, ws>>

\* ----------------------------------------------------------------- inputs

\* number of data rows of the generated tables
NumRows == 8

\* number of files of a batch
MaxFiles == 3

T_STOP == <<"S","T","O","P">>

Pick(seq, r) == seq[(r % Len(seq)) + 1]

\* the time cell of data row r
TimeText(r) == <<"0", ":", Pick(DigitChars, r)>>

\* marker cells by kind; the text of a kind varies with the row
StartTexts == << T_START, <<" ","s","t","a","r","t">>, <<"S","t","a","r","t"," ">> >>

NumTexts == << <<"1","0","0">>, <<"2",",","5">>, <<"0">>, <<" ","4","0",".","5">>,
               <<"2","5","0">> >>

OtherTexts == << <<>>, T_STOP, <<"a","b">>, <<" ">>, <<"1","0","m">> >>

Kinds == {"S", "N", "X", "short"}

MarkerText(kind, r) ==
  CASE kind = "S" -> Pick(StartTexts, r)
    [] kind = "N" -> Pick(NumTexts, r)
    [] OTHER      -> Pick(OtherTexts, r)

\* A data row with its marker cell in column c: the time two columns to the
\* left, then the cells of the first three channels.  A "short" row ends
\* before the marker column.
DataRow(r, c, kind, marker, chans) ==
  LET left == [j \in 1..c |-> IF j = c - 1 THEN TimeText(r) ELSE <<>>]
  IN IF kind = "short" THEN SubSeq(left, 1, c - 1)
     ELSE left \o <<marker>> \o chans

ChanTexts(r) == << Pick(NumTexts, r + 1), <<>>, Pick(NumTexts, r + 2) >>

Body(c, kinds) ==
  [r \in 1..Len(kinds) |-> DataRow(r, c, kinds[r], MarkerText(kinds[r], r), ChanTexts(r))]

\* header rows: the marker header in column 2, blank-padded and mixed-case
\* in column 0, a START header only, a START header left of the marker
\* header, no header, a near miss, and the marker header in column 3
HeaderRows ==
  { << <<"t">>, <<>>, T_MARKER, <<"V">> >>,
    << <<" ","M","a","r","k","e","r"," ">>, <<"V">> >>,
    << <<"t">>, <<>>, T_START >>,
    << T_START, <<>>, T_MARKER >>,
    << <<"t">>, <<>>, <<"x">> >>,
    << <<"M","A","R","K","E","R","S">>, <<>>, <<>> >>,
    << <<>>, <<>>, <<>>, T_MARKER, T_MARKER >> }

HeaderBlocks == {<<h>> : h \in HeaderRows} \cup {<<g, h>> : g, h \in HeaderRows}

StdHeader == << <<"t">>, <<>>, T_MARKER, <<"V">> >>

GoodKinds == [r \in 1..7 |-> IF r = 1 THEN "S" ELSE "N"]

FewKinds == [r \in 1..4 |-> IF r = 2 THEN "S" ELSE "N"]

File(name, table) == [name |-> name, rows |-> table]

\* tables for the boundary scan: every assignment of kinds to the data rows
\* under the standard header, one table without header, and every position
\* of a short row
\* tables for the header scan: every header block over a few bodies
HeaderTables(blocks) ==
  {hb \o Body(c, kinds) : hb \in blocks, c \in {0, 2}, kinds \in {GoodKinds, FewKinds}}

InitHeader == \E t \in HeaderTables(HeaderBlocks) : InitWith(<<File("a.xml", t)>>)

ScanTables(n) ==
  {<<StdHeader>> \o Body(2, kinds) : kinds \in [1..n -> {"S", "N", "X"}]}
  \cup {<< << <<"t">>, <<>>, <<"x">> >> >> \o Body(2, GoodKinds)}
  \cup {<<StdHeader>> \o Body(2, [r \in 1..n |-> IF r = q THEN "short" ELSE
                                               IF r = 1 THEN "S" ELSE "N"]) :
          q \in 1..n}

InitScan == \E t \in ScanTables(NumRows) : InitWith(<<File("a.xml", t)>>)

\* tables that fail: no marker header, and too few boundaries
BadTables ==
  { << << <<"t">>, <<>>, <<"x">> >> >> \o Body(2, GoodKinds),
    <<StdHeader>> \o Body(2, FewKinds) }

\* channel cells by kind: nothing parses ("E"), both V'O2 and V'E are
\* numbers ("B"), or one of them is zero or missing ("M")
ChanKinds == {"E", "B", "M"}

AvgChans(ck, r) ==
  CASE ck = "E" -> Pick(<< << <<>>, <<>>, <<>> >>,
                           << <<"a","b">>, <<>>, <<" ">> >>,
                           <<>> >>, r)
    [] ck = "B" -> << Pick(<< <<"2">>, <<"4",",","5">>, <<"1">> >>, r),
                      <<>>,
                      Pick(<< <<"6">>, <<"9">>, <<"3",",","5">> >>, r) >>
    [] OTHER    -> Pick(<< << <<"0">>, <<>>, <<"7">> >>,
                           << <<"3">>, <<>>, <<>> >>,
                           << <<>>, <<>>, <<"5">> >> >>, r)

\* START, a numeric marker, a row without marker, then numeric markers
AvgKinds(r) == IF r = 1 THEN "S" ELSE IF r = 3 THEN "X" ELSE "N"

\* the channel kinds row r draws from
ChanKindsAt(r) == IF r <= 6 THEN ChanKinds ELSE {"E", "B"}

\* tables for the averages: fixed markers, every assignment of channel kinds
AvgTables(n) ==
  {<<StdHeader>> \o
     [r \in 1..n |-> DataRow(r, 2, AvgKinds(r), MarkerText(AvgKinds(r), r),
                            AvgChans(cks[r], r))] :
     cks \in {f \in [1..n -> ChanKinds] : \A r \in 1..n : f[r] \in ChanKindsAt(r)}}
  \cup BadTables

InitAvg == \E t \in AvgTables(NumRows) : InitWith(<<File("a.xml", t)>>)

DistTexts == { <<"0">>, <<"1","0","0">>, <<"2","5","0">>, <<"1","2",",","5">> }

\* tables for the kinematics: START and six numeric markers, every
\* assignment of distance texts
KinTables(texts) ==
  {<<StdHeader>> \o
     [r \in 1..7 |-> DataRow(r, 2, "N", IF r = 1 THEN T_START ELSE ds[r - 1],
                             ChanTexts(r))] :
     ds \in [1..6 -> texts]}
  \cup BadTables

InitKin == \E t \in KinTables(DistTexts) : InitWith(<<File("a.xml", t)>>)

FileName(i) == Pick(<<"f0.xml", "f1.xml", "f2.xml", "f3.xml", "f4.xml", "f5.xml">>, i)

\* tables of a batch: two that succeed, one with no marker header, two with
\* too few boundaries (three found, none found)
BatchTables ==
  { <<StdHeader>> \o Body(2, GoodKinds),
    << << <<" ","M","a","r","k","e","r"," ">>, <<"V">> >> >> \o Body(0, GoodKinds),
    << << <<"t">>, <<>>, <<"x">> >> >> \o Body(2, GoodKinds),
    <<StdHeader>> \o Body(2, FewKinds),
    <<StdHeader>> \o Body(2, [r \in 1..4 |-> "N"]) }

Batches(max) ==
  UNION {[1..n -> BatchTables] : n \in 1..max}

InitBatch ==
  \E ts \in Batches(MaxFiles) : InitWith([i \in 1..Len(ts) |-> File(FileName(i), ts[i])])

Init == InitHeader \/ InitScan \/ InitAvg \/ InitKin \/ InitBatch

Next ==
  \/ BeginFile
  \/ HeaderFound
  \/ HeaderMissing
  \/ ScanRow
  \/ BoundariesMissing
  \/ ComputeAverages
  \/ BuildVariables
  \/ ReturnSubject
  \/ EndLoop
  \/ ExportRow
  \/ SaveWorkbook

Spec == Init /\ [][Next]_vars

SpecHeader == InitHeader /\ [][Next]_vars

SpecScan == InitScan /\ [][Next]_vars

SpecAvg == InitAvg /\ [][Next]_vars

SpecKin == InitKin /\ [][Next]_vars

SpecBatch == InitBatch /\ [][Next]_vars


\* ---------------------------------------------- what the claims speak about
\* These definitions state the expected results from the table alone, by
\* sets of rows and cells; none of them uses the operators of the program.

Min(S) == CHOOSE x \in S : \A y \in S : x <= y

\* the i-th smallest element of a set of integers
Kth(S, i) == CHOOSE x \in S : Cardinality({y \in S : y < x}) = i - 1

\* the cells of table t whose trimmed, upper-cased text is one of tokens
MatchingCells(t, tokens) ==
  UNION {{<<r, c>> : c \in {c \in 0..(Len(t[r + 1]) - 1) :
                             Upper(Strip(t[r + 1][c + 1])) \in tokens}} :
         r \in 0..(Len(t) - 1)}

\* the first of a set of cells in row-major order
FirstCell(P) ==
  CHOOSE p \in P : \A q \in P : p[1] < q[1] \/ (p[1] = q[1] /\ p[2] <= q[2])

\* the marker column: that of the first cell matching "MARKER"
MarkerCol(t) == FirstCell(MatchingCells(t, {T_MARKER}))[2]

HasMarker(t) == MatchingCells(t, {T_MARKER}) # {}

\* the trimmed marker cell of row r, for rows long enough to have one
HasMarkerCell(t, mi, r) == mi < Len(t[r + 1])

MarkerCell(t, mi, r) == Strip(t[r + 1][mi + 1])

\* the rows among the first n whose marker cell is "START" in any case
StartRows(t, mi, n) ==
  {r \in 0..(n - 1) : HasMarkerCell(t, mi, r) /\ Upper(MarkerCell(t, mi, r)) = T_START}

\* the rows among the first n, after the first START row, whose non-empty
\* marker cell is a decimal number
NumericRows(t, mi, n) ==
  LET sr == StartRows(t, mi, n)
  IN IF sr = {} THEN {}
     ELSE LET s0 == Min(sr)
          IN {r \in (s0 + 1)..(n - 1) :
                /\ HasMarkerCell(t, mi, r)
                /\ MarkerCell(t, mi, r) # <<>>
                /\ ParseFloat(ReplaceComma(MarkerCell(t, mi, r))) # None}

\* the boundary rows expected after the first n rows: the first START row,
\* then the earliest numeric rows, at most six
ExpectedRows(t, mi, n) ==
  LET sr == StartRows(t, mi, n)
  IN IF sr = {} THEN <<>>
     ELSE LET nums == NumericRows(t, mi, n)
              take == IF Cardinality(nums) < 6 THEN Cardinality(nums) ELSE 6
          IN <<Min(sr)>> \o [i \in 1..take |-> Kth(nums, i)]

\* the number of boundary events of the whole table, not capped
FoundCount(t) ==
  LET mi == MarkerCol(t)
  IN IF StartRows(t, mi, Len(t)) = {} THEN 0
     ELSE 1 + Cardinality(NumericRows(t, mi, Len(t)))

\* C10: at every step of the boundary scan the collected boundaries are the
\* first START row (distance 0) followed by the earliest later rows whose
\* non-empty marker cell is a decimal number, in row order, at most six of
\* them, each with the distance its cell holds; numeric rows before START,
\* later non-numeric text and rows too short for the marker column are
\* never boundaries; row indices increase strictly and there are at most 7.
C10_ScanCollectsStartThenNumeric ==
  pc \in {"scan", "check"} =>
    LET exp == ExpectedRows(rows, marker_index, idx)
    IN /\ Len(boundaries) <= 7
       /\ Len(boundaries) = Len(exp)
       /\ \A i \in 1..Len(boundaries) :
            /\ boundaries[i].row_index = exp[i]
            /\ boundaries[i].meter =
                 IF i = 1 THEN RatInt(0)
                 ELSE ParseFloat(ReplaceComma(MarkerCell(rows, marker_index, exp[i])))
       /\ \A i \in 1..(Len(boundaries) - 1) :
            boundaries[i].row_index < boundaries[i + 1].row_index
       /\ found_start = (boundaries # <<>>)

\* the scan is over; a numeric row precedes START, a "STOP" or a repeated
\* START follows it, a blank-padded lower-case start opened the sequence
C10_Witness ==
  /\ pc = "check"
  /\ Len(boundaries) >= 3
  /\ rows[boundaries[1].row_index + 1][marker_index + 1] # T_START
  /\ \E r \in 0..(boundaries[1].row_index - 1) :
       /\ HasMarkerCell(rows, marker_index, r)
       /\ ParseFloat(ReplaceComma(MarkerCell(rows, marker_index, r))) # None
  /\ \E r \in (boundaries[1].row_index + 1)..(boundaries[Len(boundaries)].row_index - 1) :
       /\ HasMarkerCell(rows, marker_index, r)
       /\ Upper(MarkerCell(rows, marker_index, r)) \in {T_START, T_STOP}

\* C1: a file with a marker column whose scan collects fewer than 7
\* boundary events ends with the boundary error, a file that succeeds has at
\* least 7 of them in its table, and every returned record holds exactly 7
\* timestamps and exactly 7 distances.
C1_SevenOrFail ==
  /\ \A i \in 1..Len(reports) :
       HasMarker(files[i].rows) =>
         /\ FoundCount(files[i].rows) < 7 =>
              reports[i].kind = "error" /\ reports[i].msg = MsgNotEnough
         /\ reports[i].kind = "success" => FoundCount(files[i].rows) >= 7
  /\ \A j \in 1..Len(all_subjects) :
       Len(all_subjects[j].boundaries) = 7 /\ Len(all_subjects[j].meters) = 7

\* a record was returned for a table with more than six numeric rows after START
C1_Witness ==
  /\ Len(all_subjects) = 1
  /\ HasMarker(files[1].rows)
  /\ FoundCount(files[1].rows) > 7

Good(t) == HasMarker(t) /\ FoundCount(t) >= 7

\* the 7 distances expected of a good table
ExpectedMeters(t) ==
  LET mi == MarkerCol(t)
      er == ExpectedRows(t, mi, Len(t))
  IN [i \in 1..Len(er) |->
        IF i = 1 THEN RatInt(0) ELSE ParseFloat(ReplaceComma(MarkerCell(t, mi, er[i])))]

\* the 7 timestamps expected of a good table
ExpectedTimes(t) ==
  LET mi == MarkerCol(t)
      er == ExpectedRows(t, mi, Len(t))
  IN [i \in 1..Len(er) |->
        IF mi >= 2 THEN Strip(t[er[i] + 1][mi - 1]) ELSE <<>>]

\* C2: every file is attempted exactly once in submission order whatever
\* the files before it did; a file that fails leaves one error report under
\* its own name and no record, a file that succeeds one record; the records
\* are those of the good files in submission order; the loop only ends when
\* every file was attempted.
C2_FailuresAreIsolated ==
  LET done == Len(reports)
      good == {i \in 1..done : Good(files[i].rows)}
  IN /\ attempted = [i \in 1..Len(attempted) |-> i]
     /\ done = k - 1
     /\ Len(attempted) = IF pc \in {"loop", "export", "done", "crashed"} THEN done ELSE done + 1
     /\ \A i \in 1..done :
          /\ reports[i].name = files[i].name
          /\ reports[i].kind = IF i \in good THEN "success" ELSE "error"
     /\ Len(all_subjects) = Cardinality(good)
     /\ \A j \in 1..Len(all_subjects) :
          /\ all_subjects[j].meters = ExpectedMeters(files[Kth(good, j)].rows)
          /\ all_subjects[j].boundaries = ExpectedTimes(files[Kth(good, j)].rows)
     /\ pc \in {"export", "done", "crashed"} => done = Len(files)

\* a batch of three ended: the second file failed, the first and the third
\* left their records, which differ
C2_Witness ==
  /\ pc = "done"
  /\ Len(files) = 3
  /\ reports[2].kind = "error"
  /\ reports[1].kind = "success"
  /\ reports[3].kind = "success"
  /\ Len(all_subjects) = 2
  /\ all_subjects[1] # all_subjects[2]
  /\ Len(ws) = 2

\* C9 as stated: the report of a boundary failure identifies the number of
\* boundary events found, so two boundary failures with the same message
\* found the same number.
C9_ReportNamesCount ==
  \A i, j \in 1..Len(reports) :
    ( /\ reports[i].kind = "error" /\ reports[i].msg # MsgNoMarker
      /\ reports[j].kind = "error" /\ reports[j].msg # MsgNoMarker
      /\ reports[i].msg = reports[j].msg )
    => FoundCount(files[i].rows) = FoundCount(files[j].rows)

\* the number in column j of row r of table t, None if the row is too
\* short or the cell is empty or no number
ParsedAt(t, r, j) ==
  IF j < Len(t[r + 1]) THEN ParseFloat(ReplaceComma(Strip(t[r + 1][j + 1]))) ELSE None

\* the sum of f over a finite set
RECURSIVE SumOver(_, _)
SumOver(S, f) ==
  IF S = {} THEN RatInt(0)
  ELSE LET x == CHOOSE y \in S : TRUE
       IN RatAdd(f[x], SumOver(S \ {x}, f))

\* the mean of the non-null values of f over S, None if there is none
MeanOver(S, f) ==
  LET nn == {x \in S : f[x] # None}
  IN IF nn = {} THEN None ELSE RatDiv(SumOver(nn, f), RatInt(Cardinality(nn)))

\* C3: the average of interval i (0..5) and channel c is the mean of the
\* numbers in column marker_index + 1 + c over the rows from boundary i to
\* boundary i + 1, both included; cells that are missing, empty or no number
\* count in neither sum nor divisor; the average is None when none parses.
C3_IntervalAverageIsInclusiveMean ==
  pc = "vars" =>
    \A i \in 0..5 : \A c \in 0..(num_metrics - 1) :
      LET R == {r \in 0..(Len(rows) - 1) :
                  boundaries[i + 1].row_index <= r /\ r <= boundaries[i + 2].row_index}
          f == [r \in R |-> ParsedAt(rows, r, marker_index + 1 + c)]
      IN per_minute_avgs[i + 1][c + 1] = MeanOver(R, f)

\* averages were computed: the first interval of V'O2 has no number and is
\* None, an interior boundary row holds a number that enters both of its
\* intervals, and a cell that is no number lies in an interval with an average
C3_Witness ==
  /\ pc = "vars"
  /\ per_minute_avgs[1][1] = None
  /\ \E i \in 2..6 :
       /\ ParsedAt(rows, boundaries[i].row_index, marker_index + 1) # None
       /\ ~RatIsZero(ParsedAt(rows, boundaries[i].row_index, marker_index + 1))
       /\ per_minute_avgs[i - 1][1] # None
       /\ per_minute_avgs[i][1] # None
       /\ per_minute_avgs[i - 1][1] # per_minute_avgs[i][1]
  /\ \E i \in 1..6 :
       /\ per_minute_avgs[i][1] # None
       /\ \E r \in boundaries[i].row_index..boundaries[i + 1].row_index :
            /\ marker_index + 1 < Len(rows[r + 1])
            /\ rows[r + 1][marker_index + 2] # <<>>
            /\ ParsedAt(rows, r, marker_index + 1) = None

\* C4: of each channel's six interval averages v0..v5, third1, third2,
\* third3 are the means of (v0,v1), (v2,v3), (v4,v5), half1 and half2 those
\* of (v0,v1,v2) and (v3,v4,v5), total that of all six; a mean leaves the
\* nulls out of sum and divisor and is None exactly when all inputs are.
C4_AggregatesAreNullExcludingMeans ==
  pc = "ret" =>
    \A n \in 1..Len(var_names) :
      LET v  == [m \in 0..5 |-> per_minute_avgs[m + 1][n]]
          vd == variables[var_names[n]]
      IN /\ vd.third1 = MeanOver({0, 1}, v)
         /\ vd.third2 = MeanOver({2, 3}, v)
         /\ vd.third3 = MeanOver({4, 5}, v)
         /\ vd.half1  = MeanOver({0, 1, 2}, v)
         /\ vd.half2  = MeanOver({3, 4, 5}, v)
         /\ vd.total  = MeanOver(0..5, v)
         /\ \A m \in 0..5 : vd.minutes[m + 1] = v[m]

\* aggregates were built for V'O2 with v0 null, v1 and v2 different numbers
\* and v4, v5 null: half1 leaves v0 out, third3 is None, total is not
C4_Witness ==
  /\ pc = "ret"
  /\ per_minute_avgs[1][1] = None
  /\ per_minute_avgs[2][1] # None
  /\ per_minute_avgs[3][1] # None
  /\ per_minute_avgs[2][1] # per_minute_avgs[3][1]
  /\ per_minute_avgs[5][1] = None
  /\ per_minute_avgs[6][1] = None
  /\ variables["V'O2"].third3 = None
  /\ variables["V'O2"].total # None

\* the column of V'E/V'O2 inside a group
RatioColumn == CHOOSE c \in 1..Len(order) : order[c] = "V'E/V'O2"

\* C8: in every bucket the exported V'E/V'O2 is the bucket's aggregate of
\* V'E divided by the bucket's aggregate of V'O2, and None when the
\* denominator is None or 0 or the numerator is None; no error is raised.
C8_RatioOfAggregates ==
  /\ pc # "crashed"
  /\ \A n \in 1..Len(ws) : \A g \in 1..Len(groups) :
       LET num == all_subjects[n].variables["V'E"][groups[g]]
           den == all_subjects[n].variables["V'O2"][groups[g]]
           val == ws[n].phys[g][RatioColumn]
       IN IF num = None \/ den = None
          THEN val = None
          ELSE IF den[1] = 0 THEN val = None
          ELSE val # None /\ RatMul(val, den) = num

\* the mean of the per-interval ratios of a record over the intervals S
MeanOfRatios(subj, S) ==
  LET e == subj.variables["V'E"].minutes
      o == subj.variables["V'O2"].minutes
      f == [m \in S |-> IF e[m] = None \/ o[m] = None THEN None
                        ELSE IF o[m][1] = 0 THEN None ELSE RatDiv(e[m], o[m])]
  IN MeanOver(S, f)

\* a row was exported whose total ratio is a number other than the mean of
\* the interval ratios, with a bucket whose V'O2 aggregate is 0 and a bucket
\* whose V'E aggregate is None beside a non-zero V'O2 aggregate
C8_Witness ==
  /\ Len(ws) = 1
  /\ ws[1].phys[3][RatioColumn] # None
  /\ MeanOfRatios(all_subjects[1], 1..6) # None
  /\ ws[1].phys[3][RatioColumn] # MeanOfRatios(all_subjects[1], 1..6)
  /\ \E g \in 1..Len(groups) :
       /\ all_subjects[1].variables["V'O2"][groups[g]] = RatInt(0)
       /\ all_subjects[1].variables["V'E"][groups[g]] # None
  /\ \E g \in 1..Len(groups) :
       /\ all_subjects[1].variables["V'E"][groups[g]] = None
       /\ all_subjects[1].variables["V'O2"][groups[g]] # None
       /\ all_subjects[1].variables["V'O2"][groups[g]] # RatInt(0)

\* C5: the exported kinematics of distances m0..m6 (m0 = 0) are
\* d[i] = m[i] - m[i-1], p1 = m2-m0, p2 = m4-m2, p3 = m6-m4, t1 = m3-m0,
\* t2 = m6-m3, D = m6-m0, total speed D/100, 2-min distance p1 and 2-min
\* speed p1*30/1000; so d1+...+d6 = p1+p2+p3 = t1+t2 = D.
C5_KinematicsFormulas ==
  \A n \in 1..Len(ws) :
    LET m == [i \in 0..6 |-> all_subjects[n].meters[i + 1]]
        c == ws[n].computed
        d == [i \in 1..6 |-> c[i]]
    IN /\ m[0] = RatInt(0)
       /\ \A i \in 1..6 : d[i] = RatSub(m[i], m[i - 1])
       /\ c[7]  = RatSub(m[2], m[0])
       /\ c[8]  = RatSub(m[4], m[2])
       /\ c[9]  = RatSub(m[6], m[4])
       /\ c[10] = RatSub(m[3], m[0])
       /\ c[11] = RatSub(m[6], m[3])
       /\ c[12] = RatSub(m[6], m[0])
       /\ RatMul(c[13], RatInt(100)) = c[12]
       /\ c[14] = c[7]
       /\ RatMul(c[15], RatInt(1000)) = RatMul(c[7], RatInt(30))
       /\ SumOver(1..6, d) = c[12]
       /\ RatAdd(RatAdd(c[7], c[8]), c[9]) = c[12]
       /\ RatAdd(c[10], c[11]) = c[12]

\* a row was exported for distances that are not all whole numbers, with a
\* positive total and a negative per-minute distance
C5_Witness ==
  /\ Len(ws) = 1
  /\ ws[1].computed[12][1] > 0
  /\ ws[1].computed[12][2] > 1
  /\ \E i \in 1..6 : ws[1].computed[i][1] < 0
  /\ ws[1].computed[7] # ws[1].computed[8]

\* C6: each decline index is (d6 - X) / X * 100 for X = d2, d3, d1 when X
\* is a non-zero number and None when X is 0; the kinematics raise no
\* arithmetic error for any distances a record can hold, and those are
\* numbers, never None.
C6_DeclineIndexNullSafe ==
  /\ pc # "crashed"
  /\ \A n \in 1..Len(all_subjects) : \A i \in 1..Len(all_subjects[n].meters) :
       all_subjects[n].meters[i] # None
  /\ \A n \in 1..Len(ws) :
       LET c  == ws[n].computed
           d6 == c[6]
           X  == <<c[2], c[3], c[1]>>
       IN \A q \in 1..3 :
            IF X[q][1] = 0 THEN c[15 + q] = None
            ELSE /\ c[15 + q] # None
                 /\ RatMul(c[15 + q], X[q]) = RatMul(RatSub(d6, X[q]), RatInt(100))

\* a row was exported with d2 = 0 (equal consecutive distances), so the
\* index against minute 2 is None, beside an index against minute 1 of 0
\* (d1 = d6) and a negative index against minute 3
C6_Witness ==
  /\ Len(ws) = 1
  /\ ws[1].computed[2] = RatInt(0)
  /\ ws[1].computed[16] = None
  /\ ws[1].computed[18] = RatInt(0)
  /\ ws[1].computed[17] # None
  /\ ws[1].computed[17][1] < 0

=============================================================================
